---- MODULE Spec2Model ----
(***************************************************************************)
(* A model of src/requireCssModule.js: the resolution of a stylesheet into *)
(* its map of local class names to scoped names.  Strings the code takes   *)
(* apart (paths, extensions) are sequences of one-character strings;       *)
(* strings it only passes on (module names, patterns, messages) are TLA+   *)
(* strings, the empty string being the one falsy string of JavaScript.     *)
(***************************************************************************)
EXTENDS Integers, Sequences, FiniteSets, TLC

VARIABLES
  cssSourceFilePath,   \* argument of the default export
  options,             \* argument of the default export
  files,               \* the file system read by readFileSync
  compilerSync,        \* whether render calls back before it returns
  pc,                  \* where the top-level call is
  generateScopedName,  \* local of the default export
  filetypeOptions,     \* local of the default export
  extraPlugins,        \* local of the default export
  runner,              \* local of the default export: postcss(plugins)
  stack,               \* the nested activations of getTokens
  result,              \* the mapping returned to the caller
  error,               \* the error thrown to the caller
  calls,               \* history: every invocation of getTokens
  factoryCalls,        \* history: every invocation of genericNames
  returns,             \* history: every mapping a getTokens returned
  deferred,            \* render callbacks not yet run
  uncaught             \* errors thrown by callbacks after the call

vars == <<cssSourceFilePath, options, files, compilerSync, pc,
          generateScopedName, filetypeOptions, extraPlugins, runner, stack,
          result, error, calls, factoryCalls, returns, deferred, uncaught>>

(***************************************************************************)
(* Bounds of the model.                                                    *)
(***************************************************************************)
\* longest path and longest configuration key of the pure-function inputs
MaxLen == 3
\* frames of getTokens the engine's call stack holds before it overflows
StackLimit == 6

(***************************************************************************)
(* JavaScript string operations, on sequences of characters.               *)
(***************************************************************************)
RECURSIVE lastIndexFrom(_, _, _)
lastIndexFrom(s, ch, i) ==
  IF i = 0 THEN -1
  ELSE IF s[i] = ch THEN i - 1
  ELSE lastIndexFrom(s, ch, i - 1)

\* String.prototype.lastIndexOf: the 0-based index of the last ch, or -1
lastIndexOf(s, ch) == lastIndexFrom(s, ch, Len(s))

\* String.prototype.substr(start): a negative start counts from the end
substr(s, start) ==
  LET from == IF start < 0
              THEN (IF Len(s) + start < 0 THEN 0 ELSE Len(s) + start)
              ELSE start
  IN  SubSeq(s, from + 1, Len(s))

\* RegExp /<suffix>$/ .test(s)
endsWith(s, suffix) ==
  /\ Len(s) >= Len(suffix)
  /\ SubSeq(s, Len(s) - Len(suffix) + 1, Len(s)) = suffix

StylSuffix == <<".", "s", "t", "y", "l">>

(***************************************************************************)
(* path.dirname and path.resolve (POSIX).                                  *)
(***************************************************************************)
cwd == <<"/", "w">>

isAbsolute(p) == Len(p) > 0 /\ p[1] = "/"

RECURSIVE stripTrailingSlashes(_)
stripTrailingSlashes(p) ==
  IF Len(p) > 1 /\ p[Len(p)] = "/"
  THEN stripTrailingSlashes(SubSeq(p, 1, Len(p) - 1))
  ELSE p

dirname(p) ==
  LET q == stripTrailingSlashes(p)
      i == lastIndexOf(q, "/")
  IN  IF Len(p) = 0 THEN <<".">>
      ELSE IF i = -1 THEN <<".">>
      ELSE IF i = 0 THEN <<"/">>
      ELSE stripTrailingSlashes(SubSeq(q, 1, i))

\* the segments of p between its slashes, empty ones included
RECURSIVE splitFrom(_, _, _)
splitFrom(p, i, cur) ==
  IF i > Len(p) THEN <<cur>>
  ELSE IF p[i] = "/" THEN <<cur>> \o splitFrom(p, i + 1, <<>>)
  ELSE splitFrom(p, i + 1, Append(cur, p[i]))

split(p) == splitFrom(p, 1, <<>>)

\* normalizeString of an absolute path: ".", "" dropped, ".." pops (not above root)
RECURSIVE normalizeSegments(_, _, _)
normalizeSegments(segs, i, out) ==
  IF i > Len(segs) THEN out
  ELSE IF segs[i] = <<>> \/ segs[i] = <<".">> THEN normalizeSegments(segs, i + 1, out)
  ELSE IF segs[i] = <<".", ".">>
       THEN normalizeSegments(segs, i + 1,
                              IF Len(out) = 0 THEN out ELSE SubSeq(out, 1, Len(out) - 1))
  ELSE normalizeSegments(segs, i + 1, Append(out, segs[i]))

RECURSIVE joinSegments(_, _)
joinSegments(segs, i) ==
  IF i > Len(segs) THEN <<>>
  ELSE <<"/">> \o segs[i] \o joinSegments(segs, i + 1)

\* path.resolve(from, to): arguments taken right to left until one is absolute,
\* the working directory last; the result is normalized
resolve(from, to) ==
  LET joined == IF isAbsolute(to) THEN to
                ELSE IF isAbsolute(from) THEN from \o <<"/">> \o to
                ELSE cwd \o <<"/">> \o from \o <<"/">> \o to
      segs == normalizeSegments(split(joined), 1, <<>>)
  IN  IF Len(segs) = 0 THEN <<"/">> ELSE joinSegments(segs, 1)

(***************************************************************************)
(* Values.                                                                 *)
(***************************************************************************)
\* the two absent values, shaped like a FiletypeOptionsType record
Null == [tag |-> "null", syntax |-> "", hasPlugins |-> FALSE, plugins |-> <<>>]
Undefined == [tag |-> "undefined", syntax |-> "", hasPlugins |-> FALSE, plugins |-> <<>>]
isAbsent(v) == v.tag \in {"null", "undefined"}

\* a FiletypeOptionsType record; syntax "" stands for a missing syntax
FiletypeRecord(syntax, hasPlugins, plugins) ==
  [tag |-> "record", syntax |-> syntax, hasPlugins |-> hasPlugins, plugins |-> plugins]

\* an entry of `plugins`: a module name, or a [name, configuration] pair
PluginName(name) == [isArray |-> FALSE, name |-> name, config |-> ""]
PluginPair(name, config) == [isArray |-> TRUE, name |-> name, config |-> config]

\* modules require() resolves; any other name makes it throw
Modules == {"postcss-scss", "postcss-nested", "postcss-import"}

NoError == [type |-> "none", message |-> <<>>]
LoadError(name) == [type |-> "LoadError", message |-> <<"Cannot find module", name>>]

(***************************************************************************)
(* getFiletypeOptions, getSyntax, getExtraPlugins.                         *)
(***************************************************************************)
\* faulty variant: the extension taken from the first dot of the path
getFiletypeOptionsFirstDot(path, filetypes) ==
  LET dots == {i \in 1..Len(path) : path[i] = "."}
      first == IF dots = {} THEN -1 ELSE (CHOOSE i \in dots : \A j \in dots : i <= j) - 1
      extension == substr(path, first)
  IN  IF filetypes.tag = "object"
      THEN (IF extension \in DOMAIN filetypes.map
            THEN filetypes.map[extension]
            ELSE Undefined)
      ELSE Null

getFiletypeOptions(path, filetypes) ==
  LET extension == substr(path, lastIndexOf(path, "."))
  IN  IF filetypes.tag = "object"
      THEN (IF extension \in DOMAIN filetypes.map
            THEN filetypes.map[extension]
            ELSE Undefined)
      ELSE Null

\* [threw, value]: the module loaded for the syntax, or null
getSyntax(fto) ==
  IF isAbsent(fto) \/ fto.syntax = ""
  THEN [threw |-> FALSE, loaded |-> FALSE, value |-> ""]
  ELSE IF fto.syntax \in Modules
  THEN [threw |-> FALSE, loaded |-> TRUE, value |-> fto.syntax]
  ELSE [threw |-> TRUE, loaded |-> FALSE, value |-> fto.syntax]

\* faulty variant: the configuration of a pair is dropped
loadPluginWithoutConfiguration(plugin) ==
  [module |-> plugin.name, invoked |-> plugin.isArray, config |-> ""]

\* what one entry of `plugins` maps to
loadPlugin(plugin) ==
  IF plugin.isArray
  THEN [module |-> plugin.name, invoked |-> TRUE, config |-> plugin.config]
  ELSE [module |-> plugin.name, invoked |-> FALSE, config |-> ""]

\* [threw, value]: Array.prototype.map over `plugins`; the first require that
\* fails throws out of the map
getExtraPlugins(fto) ==
  IF isAbsent(fto) \/ ~fto.hasPlugins
  THEN [threw |-> FALSE, module |-> "", value |-> <<>>]
  ELSE LET bad == {i \in 1..Len(fto.plugins) : fto.plugins[i].name \notin Modules}
       IN  IF bad # {}
           THEN [threw |-> TRUE,
                 module |-> fto.plugins[CHOOSE i \in bad : \A j \in bad : i <= j].name,
                 value |-> <<>>]
           ELSE [threw |-> FALSE, module |-> "",
                 value |-> [i \in 1..Len(fto.plugins) |-> loadPlugin(fto.plugins[i])]]

(***************************************************************************)
(* The scoped-name generator and the pipeline.                             *)
(***************************************************************************)
\* optionsDefaults.generateScopedName
DefaultPattern == "[path]___[name]__[local]___[hash:base64:5]"
\* process.cwd(), as the string handed to genericNames
ProcessCwd == "/w"

NoGenerator == [kind |-> "none", fn |-> "", pattern |-> "", context |-> ""]

\* genericNames(pattern, {context}): the generator the factory builds
genericNames(pattern, context) ==
  [kind |-> "generic", fn |-> "", pattern |-> pattern, context |-> context]

\* faulty variant: any truthy generateScopedName is taken for the function
usesGivenFunctionIfTruthy(opts) == opts.generateScopedName.value # ""

\* options.generateScopedName && typeof options.generateScopedName === 'function'
usesGivenFunction(opts) == opts.generateScopedName.tag = "function"

\* the arguments of the genericNames call of the else branch; "" and an absent
\* value are falsy and give way to the default
factoryArguments(opts) ==
  [pattern |-> IF opts.generateScopedName.value # ""
               THEN opts.generateScopedName.value ELSE DefaultPattern,
   context |-> IF opts.context.value # "" THEN opts.context.value ELSE ProcessCwd]

\* the generator of one top-level call
makeGenerateScopedName(opts) ==
  IF usesGivenFunction(opts)
  THEN [kind |-> "function", fn |-> opts.generateScopedName.value,
        pattern |-> "", context |-> ""]
  ELSE genericNames(factoryArguments(opts).pattern, factoryArguments(opts).context)

\* what the generator returns for a local name of a file
Scoped(gen, local, path) == [by |-> gen, local |-> local, file |-> path]

Stage(name, gen) ==
  [stage |-> name, module |-> "", invoked |-> FALSE, config |-> "", gen |-> gen]
Extra(p) ==
  [stage |-> "extra", module |-> p.module, invoked |-> p.invoked,
   config |-> p.config, gen |-> NoGenerator]

FixedStages(gen) ==
  << Stage("Values", NoGenerator), Stage("LocalByDefault", NoGenerator),
     Stage("ExtractImports", NoGenerator), Stage("Scope", gen),
     Stage("Parser", NoGenerator) >>

\* faulty variant: the extra plugins are put after the fixed stages
pipelineExtrasLast(extra, gen) ==
  FixedStages(gen) \o [i \in 1..Len(extra) |-> Extra(extra[i])]

\* the `plugins` array handed to postcss()
pipeline(extra, gen) ==
  [i \in 1..Len(extra) |-> Extra(extra[i])] \o FixedStages(gen)

(***************************************************************************)
(* Files.  A file holds one class, x, that composes x from each path of    *)
(* `imports` in turn.  For a .styl file, stylusError is the message the    *)
(* compiler reports ("" when it compiles) and raw says what the pipeline   *)
(* makes of the uncompiled text: "css" (it reads as the compiled text),    *)
(* "junk" (it parses to no class) or "bad" (a CssSyntaxError).             *)
(***************************************************************************)
ExtCss == <<".", "c", "s", "s">>
PathA == <<"/", "a">> \o ExtCss
PathS == <<"/", "s">> \o StylSuffix
PathB == <<"/", "d", "/", "b">> \o ExtCss
PathDS == <<"/", "d", "/", "s">> \o StylSuffix
FilePaths == {PathA, PathS, PathB, PathDS}

RelB == <<".", "/", "d", "/", "b">> \o ExtCss
RelS == <<".", "/", "s">> \o StylSuffix
RelA == <<".", ".", "/", "a">> \o ExtCss

File(imports, stylusError, raw) ==
  [exists |-> TRUE, imports |-> imports, stylusError |-> stylusError, raw |-> raw]
Missing == [exists |-> FALSE, imports |-> <<>>, stylusError |-> "", raw |-> "css"]

CompilerMessage == "unexpected \"}\""

fileExists(path) == path \in DOMAIN files /\ files[path].exists

ENOENT(path) == [type |-> "ENOENT", message |-> <<"no such file or directory">>]
\* new Error(err): the message is String(err), "<name>: <message>"
CompileError(msg) == [type |-> "Error", message |-> <<"ParseError", ": ", msg>>]
CssSyntaxError == [type |-> "CssSyntaxError", message |-> <<"Unknown word">>]
RangeError == [type |-> "RangeError", message |-> <<"Maximum call stack size exceeded">>]

NoSrc == [kind |-> "none", of |-> <<>>]

(***************************************************************************)
(* getTokens, up to the start of the pipeline run (lines 78-120).          *)
(* outcome "threw" carries the error; "run" is the start of the pipeline   *)
(* run.  How the compiler is set up (lines 87-107: filename, the shared    *)
(* stylesheet, __WEB__, the $UI hash plugin) only decides what the file    *)
(* compiles to, which is the file's stylusError here.                      *)
(***************************************************************************)
\* faulty variant: the dialect is decided by the top-level file
isStylTopLevel(path) == endsWith(cssSourceFilePath, StylSuffix)

isStyl(path) == endsWith(path, StylSuffix)

\* faulty variant: the callback ignores the error it is given
compileIgnoresError(path) == FALSE

\* does render call back with an error before it returns
compileThrows(path) == compilerSync /\ files[path].stylusError # ""

\* faulty variant: src is only ever assigned by the callback
sourceTextFromCallbackOnly(path) ==
  IF isStyl(path)
  THEN (IF compilerSync THEN [kind |-> "compiled", of |-> path] ELSE NoSrc)
  ELSE [kind |-> "raw", of |-> path]

\* the text handed to runner.process
sourceText(path) ==
  IF isStyl(path) /\ compilerSync
  THEN [kind |-> "compiled", of |-> path]
  ELSE [kind |-> "raw", of |-> path]

\* what the pipeline makes of the text: "ok", "junk" or "bad"
parseOutcome(path) ==
  IF isStyl(path) /\ ~compilerSync THEN files[path].raw ELSE "css"

getTokensEnter(run, path, fto) ==
  LET syn == getSyntax(fto)
      base == [path |-> path, runner |-> run, fto |-> fto, precompiled |-> FALSE,
               syntaxSet |-> FALSE, syntaxLoaded |-> FALSE, syntax |-> "",
               piped |-> FALSE, src |-> NoSrc]
  IN  IF ~fileExists(path)
      THEN [outcome |-> "threw", error |-> ENOENT(path), call |-> base]
      ELSE IF isStyl(path)
      THEN (IF compileThrows(path)
            THEN [outcome |-> "threw", error |-> CompileError(files[path].stylusError),
                  call |-> [base EXCEPT !.precompiled = TRUE]]
            ELSE IF parseOutcome(path) = "bad"
            THEN [outcome |-> "threw", error |-> CssSyntaxError,
                  call |-> [base EXCEPT !.precompiled = TRUE, !.piped = TRUE,
                                        !.src = sourceText(path)]]
            ELSE [outcome |-> "run", error |-> NoError,
                  call |-> [base EXCEPT !.precompiled = TRUE, !.piped = TRUE,
                                        !.src = sourceText(path)]])
      ELSE IF ~isAbsent(fto)
      THEN (IF syn.threw
            THEN [outcome |-> "threw", error |-> LoadError(syn.value), call |-> base]
            ELSE [outcome |-> "run", error |-> NoError,
                  call |-> [base EXCEPT !.syntaxSet = TRUE, !.syntaxLoaded = syn.loaded,
                                        !.syntax = syn.value, !.piped = TRUE,
                                        !.src = sourceText(path)]])
      ELSE [outcome |-> "run", error |-> NoError,
            call |-> [base EXCEPT !.piped = TRUE, !.src = sourceText(path)]]

\* the classes and imports the parsing stage finds in the text of `path`
parsedClasses(path) == IF parseOutcome(path) = "junk" THEN {} ELSE {"x"}
parsedImports(path) == IF parseOutcome(path) = "junk" THEN <<>> ELSE files[path].imports

(***************************************************************************)
(* fetch (lines 148-153): the arguments of the nested getTokens call.      *)
(***************************************************************************)
\* faulty variant: the import is resolved against the top-level file's directory
fetchFromTopLevelDirectory(to, from) ==
  [runner |-> runner, path |-> resolve(dirname(cssSourceFilePath), to),
   fto |-> filetypeOptions]

\* faulty variant: the filetype options are recomputed from the imported file's extension
fetchRecomputingOptions(to, from) ==
  [runner |-> runner, path |-> resolve(dirname(from), to),
   fto |-> getFiletypeOptions(resolve(dirname(from), to), options.filetypes)]

fetch(to, from) ==
  [runner |-> runner, path |-> resolve(dirname(from), to), fto |-> filetypeOptions]

Frame(run, path, fto) ==
  [path |-> path, runner |-> run, fto |-> fto, phase |-> "enter",
   pending |-> <<>>, tokens |-> <<>>]

Throw(e) ==
  /\ pc' = "thrown"
  /\ error' = e
  /\ stack' = <<>>

(***************************************************************************)
(* The actions of one top-level call.                                      *)
(***************************************************************************)
\* the default export, lines 132-172, up to its call of getTokens
requireCssModule ==
  /\ pc = "call"
  /\ LET gen == makeGenerateScopedName(options)
         fto == getFiletypeOptions(cssSourceFilePath, options.filetypes)
         extra == getExtraPlugins(fto)
     IN  /\ generateScopedName' = gen
         /\ factoryCalls' = IF usesGivenFunction(options) THEN factoryCalls
                            ELSE Append(factoryCalls, factoryArguments(options))
         /\ filetypeOptions' = fto
         /\ IF extra.threw
            THEN /\ Throw(LoadError(extra.module))
                 /\ UNCHANGED <<extraPlugins, runner>>
            ELSE /\ extraPlugins' = extra.value
                 /\ runner' = pipeline(extra.value, gen)
                 /\ stack' = <<Frame(pipeline(extra.value, gen), cssSourceFilePath, fto)>>
                 /\ pc' = "running"
                 /\ UNCHANGED error
  /\ UNCHANGED <<cssSourceFilePath, options, files, compilerSync, result, calls,
                 returns, deferred, uncaught>>

\* getTokens, lines 78-120: read, pre-compile or set the syntax, start the run
getTokens ==
  /\ pc = "running"
  /\ stack # <<>>
  /\ stack[Len(stack)].phase = "enter"
  /\ LET f == stack[Len(stack)]
         e == getTokensEnter(f.runner, f.path, f.fto)
     IN  /\ calls' = Append(calls, e.call)
         /\ deferred' = IF fileExists(f.path) /\ isStyl(f.path) /\ ~compilerSync
                        THEN Append(deferred, f.path) ELSE deferred
         /\ IF e.outcome = "threw"
            THEN Throw(e.error)
            ELSE /\ stack' = [stack EXCEPT ![Len(stack)] =
                       [f EXCEPT !.phase = "run",
                                 !.pending = parsedImports(f.path),
                                 !.tokens = [c \in parsedClasses(f.path) |->
                                              <<Scoped(generateScopedName, c, f.path)>>]]]
                 /\ UNCHANGED <<pc, error>>
  /\ UNCHANGED <<cssSourceFilePath, options, files, compilerSync, generateScopedName,
                 filetypeOptions, extraPlugins, runner, result, factoryCalls, returns,
                 uncaught>>

\* faulty variant: a file already being processed is not fetched again
ParserFetchOnceOnly ==
  /\ pc = "running"
  /\ stack # <<>>
  /\ stack[Len(stack)].phase = "run"
  /\ stack[Len(stack)].pending # <<>>
  /\ LET f == stack[Len(stack)]
         a == fetch(Head(f.pending), f.path)
     IN  IF \E i \in 1..Len(stack) : stack[i].path = a.path
         THEN /\ stack' = [stack EXCEPT ![Len(stack)] = [f EXCEPT !.pending = Tail(@)]]
              /\ UNCHANGED <<pc, error>>
         ELSE IF Len(stack) >= StackLimit
         THEN /\ Throw(RangeError)
         ELSE /\ stack' = Append(stack, Frame(a.runner, a.path, a.fto))
              /\ UNCHANGED <<pc, error>>
  /\ UNCHANGED <<cssSourceFilePath, options, files, compilerSync, generateScopedName,
                 filetypeOptions, extraPlugins, runner, result, calls, factoryCalls,
                 returns, deferred, uncaught>>

\* the parsing stage meets an import and calls fetch(to, from), which calls getTokens
ParserFetch ==
  /\ pc = "running"
  /\ stack # <<>>
  /\ stack[Len(stack)].phase = "run"
  /\ stack[Len(stack)].pending # <<>>
  /\ LET f == stack[Len(stack)]
         a == fetch(Head(f.pending), f.path)
     IN  IF Len(stack) >= StackLimit
         THEN /\ Throw(RangeError)
         ELSE /\ stack' = Append(stack, Frame(a.runner, a.path, a.fto))
              /\ UNCHANGED <<pc, error>>
  /\ UNCHANGED <<cssSourceFilePath, options, files, compilerSync, generateScopedName,
                 filetypeOptions, extraPlugins, runner, result, calls, factoryCalls,
                 returns, deferred, uncaught>>

\* the tokens of the importing class, with those the imported file exports for x
composed(tokens, imported) ==
  [c \in DOMAIN tokens |->
     IF "x" \in DOMAIN imported THEN tokens[c] \o imported["x"] ELSE tokens[c]]

\* getTokens, lines 122-129: the run is over, its warnings are printed (no state
\* of the call changes) and root.tokens is returned
Return ==
  /\ pc = "running"
  /\ stack # <<>>
  /\ stack[Len(stack)].phase = "run"
  /\ stack[Len(stack)].pending = <<>>
  /\ LET f == stack[Len(stack)]
         n == Len(stack)
     IN  /\ returns' = returns \cup {[path |-> f.path, tokens |-> f.tokens]}
         /\ IF n = 1
            THEN /\ pc' = "returned"
                 /\ result' = f.tokens
                 /\ stack' = <<>>
            ELSE /\ stack' = [SubSeq(stack, 1, n - 1) EXCEPT ![n - 1] =
                       [@ EXCEPT !.pending = Tail(@),
                                 !.tokens = composed(@, f.tokens)]]
                 /\ UNCHANGED <<pc, result>>
  /\ UNCHANGED <<cssSourceFilePath, options, files, compilerSync, generateScopedName,
                 filetypeOptions, extraPlugins, runner, error, calls, factoryCalls,
                 deferred, uncaught>>

\* a render callback that did not run before render returned runs once the call
\* is over; the error it throws reaches no caller
LateCallback ==
  /\ pc \in {"returned", "thrown"}
  /\ deferred # <<>>
  /\ deferred' = Tail(deferred)
  /\ uncaught' = IF files[Head(deferred)].stylusError # ""
                 THEN Append(uncaught, CompileError(files[Head(deferred)].stylusError))
                 ELSE uncaught
  /\ UNCHANGED <<cssSourceFilePath, options, files, compilerSync, pc,
                 generateScopedName, filetypeOptions, extraPlugins, runner, stack,
                 result, error, calls, factoryCalls, returns>>

(***************************************************************************)
(* Inputs.                                                                 *)
(***************************************************************************)
FtNull == [tag |-> "null", map |-> <<>>]
FtObject(m) == [tag |-> "object", map |-> m]

GsnAbsent == [tag |-> "undefined", value |-> ""]
GsnFunction == [tag |-> "function", value |-> "customNamer"]
GsnString(v) == [tag |-> "string", value |-> v]
CtxAbsent == [tag |-> "undefined", value |-> ""]
CtxString(v) == [tag |-> "string", value |-> v]

Options(ft, gsn, ctx) == [filetypes |-> ft, generateScopedName |-> gsn, context |-> ctx]

RecScss == FiletypeRecord("postcss-scss", TRUE, <<PluginName("postcss-nested")>>)
RecStyl == FiletypeRecord("postcss-scss", FALSE, <<>>)
RecBare == FiletypeRecord("", FALSE, <<>>)
RecTwo == FiletypeRecord("", TRUE, <<PluginName("postcss-nested"),
                                      PluginPair("postcss-import", "cfg")>>)
RecTwoSwapped == FiletypeRecord("", TRUE, <<PluginPair("postcss-import", "cfg"),
                                             PluginName("postcss-nested")>>)
RecNoPluginModule == FiletypeRecord("", TRUE, <<PluginName("postcss-nested"),
                                                 PluginName("no-such-plugin")>>)
RecNoSyntaxModule == FiletypeRecord("no-such-syntax", TRUE, <<>>)

ByExtension(css, styl) ==
  FtObject([k \in {ExtCss, StylSuffix} |-> IF k = ExtCss THEN css ELSE styl])

\* configurations the file-system runs are made under
FewFiletypes ==
  { FtNull,
    FtObject([k \in {ExtCss} |-> RecScss]),
    FtObject([k \in {StylSuffix} |-> RecStyl]),
    ByExtension(RecTwo, RecStyl) }

\* configurations the option runs are made under
AllFiletypes ==
  FewFiletypes \cup
  { FtObject(<<>>),
    FtObject([k \in {ExtCss} |-> RecBare]),
    FtObject([k \in {ExtCss} |-> RecStyl]),
    FtObject([k \in {ExtCss} |-> RecTwoSwapped]),
    FtObject([k \in {ExtCss} |-> RecNoPluginModule]),
    ByExtension(RecNoSyntaxModule, RecNoSyntaxModule) }

AllGenerateScopedName == {GsnAbsent, GsnFunction, GsnString(""), GsnString("[local]-[hash]")}
AllContext == {CtxAbsent, CtxString(""), CtxString("/project")}

ImportLists == {<<>>, <<RelB>>, <<RelS>>, <<RelA>>, <<RelS, RelA>>, <<RelB, RelS>>}
CssFiles == {Missing} \cup {File(i, "", "css") : i \in ImportLists}
StylFiles(raws) ==
  {Missing} \cup {File(i, e, r) : i \in ImportLists, e \in {"", CompilerMessage}, r \in raws}
LeafStylFiles(raws) ==
  {Missing} \cup {File(<<>>, e, r) : e \in {"", CompilerMessage}, r \in raws}

FileSystem(fa, fb, fds, fs) ==
  [p \in FilePaths |-> IF p = PathA THEN fa ELSE IF p = PathB THEN fb
                       ELSE IF p = PathDS THEN fds ELSE fs]

FileSystems(raws) ==
  {FileSystem(fa, fb, fds, fs) :
     fa \in CssFiles, fb \in CssFiles, fds \in StylFiles(raws), fs \in LeafStylFiles(raws)}

\* the file systems the option runs are made on
FewFileSystems ==
  { FileSystem(File(<<RelB, RelS>>, "", "css"), File(<<RelS>>, "", "css"),
               File(<<>>, "", "css"), File(<<>>, "", "css")),
    FileSystem(File(<<>>, "", "css"), Missing, File(<<RelA>>, "", "css"), Missing) }

\* the state a call starts in
Start ==
  /\ pc = "call"
  /\ generateScopedName = NoGenerator
  /\ filetypeOptions = Undefined
  /\ extraPlugins = <<>>
  /\ runner = <<>>
  /\ stack = <<>>
  /\ result = <<>>
  /\ error = NoError
  /\ calls = <<>>
  /\ factoryCalls = <<>>
  /\ returns = {}
  /\ deferred = <<>>
  /\ uncaught = <<>>

InitFiles ==
  /\ cssSourceFilePath \in {PathA, PathB, PathDS}
  /\ files \in FileSystems({"css"})
  /\ options \in {Options(ft, GsnAbsent, CtxAbsent) : ft \in FewFiletypes}

InitOptions ==
  /\ cssSourceFilePath \in {PathA, PathDS}
  /\ files \in FewFileSystems
  /\ options \in {Options(ft, g, c) :
                    ft \in AllFiletypes, g \in AllGenerateScopedName, c \in AllContext}

Init ==
  /\ compilerSync = TRUE
  /\ InitFiles \/ InitOptions
  /\ Start

Next == requireCssModule \/ getTokens \/ ParserFetch \/ Return

Spec == Init /\ [][Next]_vars

(***************************************************************************)
(* The same call over a compiler whose render calls back only after it has *)
(* returned.                                                               *)
(***************************************************************************)
AsyncFileSystems ==
  {FileSystem(fa, fb, fds, fs) :
     fa \in {File(<<>>, "", "css"), File(<<RelS>>, "", "css"), File(<<RelB, RelS>>, "", "css")},
     fb \in {Missing, File(<<RelS>>, "", "css")},
     fds \in StylFiles({"css", "junk", "bad"}),
     fs \in LeafStylFiles({"css", "junk", "bad"})}

InitAsync ==
  /\ compilerSync = FALSE
  /\ cssSourceFilePath \in {PathA, PathDS}
  /\ files \in AsyncFileSystems
  /\ options \in {Options(ft, GsnAbsent, CtxAbsent) : ft \in {FtNull, ByExtension(RecTwo, RecStyl)}}
  /\ Start

NextAsync == requireCssModule \/ getTokens \/ ParserFetch \/ Return \/ LateCallback

SpecAsync == InitAsync /\ [][NextAsync]_vars

(***************************************************************************)
(* getFiletypeOptions and getExtraPlugins applied to inputs drawn from     *)
(* every path and every configuration key up to a length.                  *)
(***************************************************************************)
Alphabet == {"/", ".", "a", "b"}
Strings(n) == UNION {[1..k -> Alphabet] : k \in 0..n}
PurePaths == Strings(MaxLen)
PureKeys == Strings(MaxLen - 1)
PureRecords == {RecBare, RecScss, RecTwo, RecTwoSwapped, RecNoPluginModule}
PureFiletypes ==
  {FtNull, FtObject(<<>>)} \cup
  {FtObject([k \in {key} |-> rec]) : key \in PureKeys, rec \in PureRecords} \cup
  {FtObject([k \in {<<".", "a">>, <<".", "b">>} |->
               IF k = <<".", "a">> THEN RecTwo ELSE RecScss])}

InitPure ==
  /\ compilerSync = TRUE
  /\ cssSourceFilePath \in PurePaths
  /\ options \in {Options(ft, GsnAbsent, CtxAbsent) : ft \in PureFiletypes}
  /\ files = FileSystem(Missing, Missing, Missing, Missing)
  /\ Start

ApplyGetFiletypeOptions ==
  /\ pc = "call"
  /\ filetypeOptions' = getFiletypeOptions(cssSourceFilePath, options.filetypes)
  /\ pc' = "resolved"
  /\ UNCHANGED <<cssSourceFilePath, options, files, compilerSync, generateScopedName,
                 extraPlugins, runner, stack, result, error, calls, factoryCalls,
                 returns, deferred, uncaught>>

ApplyGetExtraPlugins ==
  /\ pc = "resolved"
  /\ LET extra == getExtraPlugins(filetypeOptions)
     IN  IF extra.threw
         THEN /\ pc' = "thrown"
              /\ error' = LoadError(extra.module)
              /\ UNCHANGED extraPlugins
         ELSE /\ pc' = "loaded"
              /\ extraPlugins' = extra.value
              /\ UNCHANGED error
  /\ UNCHANGED <<cssSourceFilePath, options, files, compilerSync, generateScopedName,
                 filetypeOptions, runner, stack, result, calls, factoryCalls,
                 returns, deferred, uncaught>>

NextPure == ApplyGetFiletypeOptions \/ ApplyGetExtraPlugins

SpecPure == InitPure /\ [][NextPure]_vars

(***************************************************************************)
(* Properties.  What a property expects is written from the statement it   *)
(* checks, not with the operators of the model above: the extension of a   *)
(* path, whether a path ends in .styl, what counts as a given pattern.     *)
(***************************************************************************)
Range(seq) == {seq[i] : i \in 1..Len(seq)}

HasDot(path) == \E i \in 1..Len(path) : path[i] = "."
\* the substring of the path from its last "." to its end, the dot included
ExtensionOf(path) ==
  LET i == CHOOSE k \in 1..Len(path) :
             path[k] = "." /\ \A j \in (k + 1)..Len(path) : path[j] # "."
  IN  [j \in 1..(Len(path) - i + 1) |-> path[i + j - 1]]

EndsInStyl(path) == HasDot(path) /\ ExtensionOf(path) = <<".", "s", "t", "y", "l">>

\* what a top-level call on `path` would return for x, with these options
RECURSIVE IndependentTokens(_, _), IndependentImports(_, _, _)
IndependentTokens(path, fuel) ==
  IF fuel = 0 \/ ~fileExists(path) THEN <<>>
  ELSE <<Scoped(makeGenerateScopedName(options), "x", path)>>
       \o IndependentImports(path, 1, fuel - 1)
IndependentImports(path, k, fuel) ==
  IF k > Len(files[path].imports) THEN <<>>
  ELSE IndependentTokens(resolve(dirname(path), files[path].imports[k]), fuel)
       \o IndependentImports(path, k + 1, fuel)

\* C1: every nested getTokens is for the import resolved against the directory of
\* the file that holds the import, and the mapping a file returns for x includes
\* every scoped name a top-level call on each file it imports would return for x.
C1_ImportResolvedAgainstImporter ==
  /\ \A i \in 2..Len(stack) :
       stack[i].path = resolve(dirname(stack[i - 1].path), Head(stack[i - 1].pending))
  /\ \A ret \in returns :
       \A k \in 1..Len(files[ret.path].imports) :
         Range(IndependentTokens(resolve(dirname(ret.path), files[ret.path].imports[k]),
                                 Cardinality(FilePaths)))
           \subseteq Range(ret.tokens["x"])

\* /a.css composes from ./d/b.css and ./s.styl, /d/b.css from ./s.styl: the nested
\* ./s.styl is /d/s.styl, the top-level one /s.styl
C1_Witness ==
  /\ pc = "returned"
  /\ cssSourceFilePath = PathA
  /\ files[PathA].imports = <<RelB, RelS>>
  /\ files[PathB].imports = <<RelS>>
  /\ files[PathDS].imports = <<>>
  /\ result["x"] = << Scoped(generateScopedName, "x", <<"/", "a", ".", "c", "s", "s">>),
                      Scoped(generateScopedName, "x", <<"/", "d", "/", "b", ".", "c", "s", "s">>),
                      Scoped(generateScopedName, "x", <<"/", "d", "/", "s", ".", "s", "t", "y", "l">>),
                      Scoped(generateScopedName, "x", <<"/", "s", ".", "s", "t", "y", "l">>) >>

\* the filetype option record of the top-level file, looked up by its extension
TopLevelRecord ==
  IF options.filetypes.tag # "object" THEN Null
  ELSE IF HasDot(cssSourceFilePath)
          /\ ExtensionOf(cssSourceFilePath) \in DOMAIN options.filetypes.map
  THEN options.filetypes.map[ExtensionOf(cssSourceFilePath)]
  ELSE Undefined

\* C2: every invocation of getTokens, at any depth, receives the runner built once
\* by the top-level call and the filetype option record of the top-level file.
C2_SameRunnerAndOptionsEverywhere ==
  \A i \in 1..Len(calls) :
    /\ calls[i].runner = runner
    /\ calls[i].runner = calls[1].runner
    /\ calls[i].fto = TopLevelRecord
    /\ calls[i].fto = filetypeOptions

\* an imported file whose own extension has another record than the top-level one
C2_Witness ==
  \E i \in 2..Len(calls) :
    /\ calls[i].piped
    /\ ExtensionOf(calls[i].path) # ExtensionOf(cssSourceFilePath)
    /\ ~isAbsent(calls[i].fto)
    /\ getFiletypeOptions(calls[i].path, options.filetypes) # calls[i].fto

\* the files a path composes from (none is seen in a file that does not compile),
\* and what is reached through them
ImportTargets(path) ==
  IF fileExists(path) /\ files[path].stylusError = ""
  THEN {resolve(dirname(path), files[path].imports[k]) : k \in 1..Len(files[path].imports)}
  ELSE {}
RECURSIVE Closure(_, _)
Closure(S, n) ==
  IF n = 0 THEN S ELSE Closure(S \cup UNION {ImportTargets(q) : q \in S}, n - 1)
ReachableFiles == Closure({cssSourceFilePath}, Cardinality(FilePaths))
CycleReachable ==
  \E q \in ReachableFiles : q \in Closure(ImportTargets(q), Cardinality(FilePaths))

\* no file the call can reach is missing or fails to compile, and every module the
\* top-level record names can be loaded
NothingElseFails ==
  /\ \A q \in ReachableFiles : fileExists(q) /\ files[q].stylusError = ""
  /\ TopLevelRecord.syntax \in Modules \cup {""}
  /\ \A i \in 1..Len(TopLevelRecord.plugins) : TopLevelRecord.plugins[i].name \in Modules

C4_PrecompileExcludesSyntax ==
  \A i \in 1..Len(calls) :
    LET c == calls[i] IN
      /\ fileExists(c.path) => (c.precompiled <=> EndsInStyl(c.path))
      /\ c.precompiled => ~c.syntaxSet /\ ~c.syntaxLoaded /\ c.syntax = ""
      /\ c.syntaxSet => ~EndsInStyl(c.path) /\ ~isAbsent(c.fto)
      /\ c.syntaxLoaded => c.syntaxSet

\* a .styl file run under a record that names a syntax, and a plain file of the
\* same call that gets the syntax
C4_Witness ==
  /\ \E i \in 1..Len(calls) :
       /\ calls[i].precompiled /\ calls[i].piped
       /\ calls[i].fto.syntax # ""
       /\ ~calls[i].syntaxSet
  /\ \E j \in 1..Len(calls) : calls[j].syntaxSet /\ calls[j].syntaxLoaded

Given(v) == v.tag = "string" /\ v.value # ""

\* C6: a generateScopedName that is a function is itself the generator of the
\* Scope stage and genericNames is never called; otherwise genericNames is called
\* once, with the given pattern or else the default one, and with the given
\* context or else the working directory, and what it returns is the generator.
C6_GeneratorChoice ==
  pc # "call" =>
    /\ IF options.generateScopedName.tag = "function"
       THEN /\ factoryCalls = <<>>
            /\ generateScopedName.kind = "function"
            /\ generateScopedName.fn = options.generateScopedName.value
       ELSE /\ factoryCalls =
                 << [pattern |-> IF Given(options.generateScopedName)
                                 THEN options.generateScopedName.value
                                 ELSE "[path]___[name]__[local]___[hash:base64:5]",
                     context |-> IF Given(options.context)
                                 THEN options.context.value ELSE "/w"] >>
            /\ generateScopedName.kind = "generic"
            /\ generateScopedName.pattern = factoryCalls[1].pattern
            /\ generateScopedName.context = factoryCalls[1].context
    /\ runner # <<>> =>
         /\ \E i \in 1..Len(runner) : runner[i].stage = "Scope"
         /\ \A i \in 1..Len(runner) :
              runner[i].stage = "Scope" => runner[i].gen = generateScopedName
    /\ pc = "returned" /\ "x" \in DOMAIN result =>
         \A n \in Range(result["x"]) : n.by = generateScopedName

\* a call with a function returns names made by it, the factory never called
C6_Witness ==
  /\ pc = "returned"
  /\ options.generateScopedName.tag = "function"
  /\ factoryCalls = <<>>
  /\ Len(result["x"]) >= 2
  /\ result["x"][1].by.fn = "customNamer"

\* C7: the pipeline is the extra plugins of the top-level record, in their
\* configured order, then Values, LocalByDefault, ExtractImports, Scope, Parser;
\* without a record, or without plugins in it, it is those five stages; without a
\* record no syntax is set and the call does not fail for want of one.
C7_PipelineOrder ==
  LET rec == TopLevelRecord
      n == IF isAbsent(rec) \/ ~rec.hasPlugins THEN 0 ELSE Len(rec.plugins)
  IN  /\ runner # <<>> =>
           /\ Len(runner) = n + 5
           /\ \A i \in 1..n :
                /\ runner[i].stage = "extra"
                /\ runner[i].module = rec.plugins[i].name
                /\ runner[i].config = rec.plugins[i].config
           /\ [i \in 1..5 |-> runner[n + i].stage]
                = <<"Values", "LocalByDefault", "ExtractImports", "Scope", "Parser">>
      /\ isAbsent(rec) =>
           /\ pc # "call" => runner # <<>>
           /\ \A i \in 1..Len(calls) : ~calls[i].syntaxSet /\ ~calls[i].syntaxLoaded
           /\ pc = "thrown" => error.type # "LoadError"

\* two extra plugins ahead of the five stages, in a call that returned
C7_Witness ==
  /\ pc = "returned"
  /\ Len(runner) = 7
  /\ runner[1].module = "postcss-nested"
  /\ runner[2].module = "postcss-import"
  /\ runner[3].stage = "Values"

\* C8 as stated: getExtraPlugins returns one invoked plugin instance per entry of
\* `plugins`, in order: a pair's module invoked with its configuration, a bare
\* name's module invoked without arguments.
C8_EveryEntryInvoked ==
  pc = "loaded" /\ ~isAbsent(filetypeOptions) /\ filetypeOptions.hasPlugins =>
    /\ Len(extraPlugins) = Len(filetypeOptions.plugins)
    /\ \A i \in 1..Len(extraPlugins) :
         /\ extraPlugins[i].module = filetypeOptions.plugins[i].name
         /\ extraPlugins[i].invoked
         /\ extraPlugins[i].config = filetypeOptions.plugins[i].config

\* C8, amended: getExtraPlugins returns one value per entry of `plugins`, in
\* order: for a pair the named module invoked with the configuration, for a bare
\* name the loaded module itself, not invoked.
C8_PairsInvokedNamesLoaded ==
  /\ pc = "loaded" /\ ~isAbsent(filetypeOptions) /\ filetypeOptions.hasPlugins =>
       /\ Len(extraPlugins) = Len(filetypeOptions.plugins)
       /\ \A i \in 1..Len(extraPlugins) :
            /\ extraPlugins[i].module = filetypeOptions.plugins[i].name
            /\ extraPlugins[i].module \in Modules
            /\ extraPlugins[i].invoked <=> filetypeOptions.plugins[i].isArray
            /\ extraPlugins[i].config = filetypeOptions.plugins[i].config
  /\ pc = "loaded" /\ (isAbsent(filetypeOptions) \/ ~filetypeOptions.hasPlugins) =>
       extraPlugins = <<>>

\* a bare name and a pair, in the order of the configuration
C8_Witness ==
  /\ pc = "loaded"
  /\ Len(extraPlugins) = 2
  /\ ~extraPlugins[1].invoked
  /\ extraPlugins[2].invoked /\ extraPlugins[2].config = "cfg"

\* C9: when the compiler reports an error for a .styl file, the top-level one or
\* an imported one, the call throws an error whose message contains the reported
\* message; the pipeline is not run on that file and no mapping is returned.
C9_CompileErrorThrown ==
  \A i \in 1..Len(calls) :
    (fileExists(calls[i].path) /\ EndsInStyl(calls[i].path)
       /\ files[calls[i].path].stylusError # "") =>
      /\ ~calls[i].piped
      /\ calls[i].src = NoSrc
      /\ i = Len(calls)
      /\ pc = "thrown"
      /\ error.type = "Error"
      /\ files[calls[i].path].stylusError \in Range(error.message)
      /\ result = <<>>

\* an imported .styl file that does not compile
C9_Witness ==
  /\ pc = "thrown"
  /\ Len(calls) >= 2
  /\ EndsInStyl(calls[Len(calls)].path)
  /\ ~EndsInStyl(cssSourceFilePath)
  /\ "unexpected \"}\"" \in Range(error.message)

\* C10 as stated: when render returns before its callback runs, getTokens of a
\* .styl file raises no compile error, hands the pipeline a text that is not the
\* compiled one, and produces an empty result.
C10_AsyncGivesEmptyResult ==
  /\ \A i \in 1..Len(calls) :
       (fileExists(calls[i].path) /\ EndsInStyl(calls[i].path)) =>
         /\ calls[i].src.kind # "compiled"
  /\ pc = "thrown" => error.type # "Error"
  /\ \A ret \in returns : EndsInStyl(ret.path) => ret.tokens = <<>>

\* C10, amended: when render returns before its callback runs, getTokens of a
\* .styl file hands the pipeline the raw text it read, never the compiled one and
\* never an empty one, and raises no compile error, whether the file compiles or
\* not; the result is whatever the pipeline makes of the raw text.
C10_AsyncPipesRawText ==
  /\ \A i \in 1..Len(calls) :
       (fileExists(calls[i].path) /\ EndsInStyl(calls[i].path)) =>
         /\ calls[i].piped
         /\ calls[i].src = [kind |-> "raw", of |-> calls[i].path]
  /\ pc = "thrown" => error.type # "Error"
  /\ \A i \in 1..Len(uncaught) : uncaught[i].type = "Error"

\* a .styl file that does not compile and whose call returned a class all the same
C10_Witness ==
  /\ pc = "returned"
  /\ EndsInStyl(cssSourceFilePath)
  /\ files[cssSourceFilePath].stylusError # ""
  /\ "x" \in DOMAIN result
  /\ Len(result["x"]) >= 1

====
